---- MODULE Spec2Model ----
(***************************************************************************)
(* A model of fix_file.py: the script reads one text file as UTF-8, applies *)
(* four literal substitutions to the text, writes the text back to the     *)
(* same path and prints a confirmation line.                               *)
(*                                                                         *)
(* A text is a sequence of code points and the file on disk a sequence of  *)
(* bytes, so reading decodes and writing encodes.                          *)
(***************************************************************************)
EXTENDS Integers, Sequences, FiniteSets, TLC

VARIABLES
  pc,        \* position of the run in the script
  run,       \* number of the current run of the script (1, 2, ...)
  order,     \* the order in which the four rules are applied (rule numbers)
  exists,    \* the path names a file
  readable,  \* the file may be opened for reading
  writable,  \* the path may be opened for writing
  disk,      \* the bytes of the file
  content,   \* the script's variable `content`
  applied,   \* how many of the four substitutions have run
  rhandle,   \* the handle of the first `with` block is open
  whandle,   \* the handle of the second `with` block is open
  wbuf,      \* the bytes f.write() left in the buffer of that handle
  stdout_state, \* standard output: "writable", "limited" or "closed"
  stdout_room,  \* the bytes a limited standard output takes in a run
  stdout_mode,  \* sys.stdout is "block" buffered, "line" buffered
                \* or "unbuffered"
  stderr_state, \* standard error: "writable", "unwritable" or "closed"
  traceback, \* the traceback of the run: "none", "printed" or "lost"
  obuf,      \* the bytes in the buffer of standard output
  stdout,    \* the bytes that reached standard output
  status,    \* the exit status of the run, -1 while it runs
  disk0,     \* history: the bytes of the file when the run started
  exists0,   \* history: the path named a file when the run started
  readText,  \* history: the text f.read() returned
  reads,     \* history: number of f.read() calls completed in this run
  writes,    \* history: number of f.write() calls completed in this run
  wopened,   \* history: the run has opened the file for writing
  err,       \* history: the step at which the run raised, or "none"
  prevOut    \* history: the bytes the previous completed run left on disk

vars == <<pc, run, order, exists, readable, writable, disk, content, applied,
          rhandle, whandle, wbuf, stdout_state, stdout_room, stdout_mode,
          stderr_state, traceback, obuf,
          stdout, status, disk0, exists0, readText, reads, writes, wopened,
          err, prevOut>>

-----------------------------------------------------------------------------
(* Bounds of the model. *)

\* longest document drawn from Fragments, in fragments
MaxFrags == 3
\* number of successive runs of the script on the same file
MaxRuns == 2

-----------------------------------------------------------------------------
(* Characters and the literals of the script.  A text (a Python str) is a   *)
(* sequence of Unicode code points; Text writes one down from its ASCII     *)
(* spelling.                                                                *)

LOWER == "abcdefghijklmnopqrstuvwxyz"
UPPER == "ABCDEFGHIJKLMNOPQRSTUVWXYZ"
DIGITS == "0123456789"

CharAt(s, i) == SubSeq(s, i, i)
CharsOf(s) == {CharAt(s, i) : i \in 1..Len(s)}
IndexIn(s, c) == CHOOSE i \in 1..Len(s) : CharAt(s, i) = c

\* the code point of the characters the literals below are spelled with
Ord(c) ==
  IF c \in CharsOf(LOWER) THEN 96 + IndexIn(LOWER, c)
  ELSE IF c \in CharsOf(UPPER) THEN 64 + IndexIn(UPPER, c)
  ELSE IF c \in CharsOf(DIGITS) THEN 47 + IndexIn(DIGITS, c)
  ELSE IF c = " " THEN 32
  ELSE IF c = "." THEN 46
  ELSE IF c = "\n" THEN 10
  ELSE 13

\* the text spelled by the string s
RECURSIVE Text(_)
Text(s) ==
  IF Len(s) = 0 THEN <<>>
  ELSE <<Ord(CharAt(s, 1))>> \o Text(SubSeq(s, 2, Len(s)))

\* U+00A0, the one character of the string "\u00a0" on line 7
NBSP == <<160>>
SPACE == Text(" ")
LF == Text("\n")
CR == Text("\r")
CRLF == Text("\r\n")

OBERVATIONS == Text("obervations")
OBSERVATIONS == Text("observations")
THE_CODE_BELLOW == Text("The code bellow")
THE_CODE_BELOW == Text("The code below")
STRENGHT_HTML == Text("strenght.html")
STRENGTH_HTML == Text("strength.html")
CONFIRMATION == "File updated successfully."

-----------------------------------------------------------------------------
(* The UTF-8 codec of open(..., encoding="utf-8"), errors="strict". *)

\* the bytes of the code point n.  A text of the script comes from decoding
\* only, so it holds no surrogate (the one code point that does not encode).
EncodeChar(n) ==
  IF n < 128 THEN <<n>>
  ELSE IF n < 2048 THEN <<192 + (n \div 64), 128 + (n % 64)>>
  ELSE IF n < 65536
    THEN <<224 + (n \div 4096), 128 + ((n \div 64) % 64), 128 + (n % 64)>>
  ELSE <<240 + (n \div 262144), 128 + ((n \div 4096) % 64),
         128 + ((n \div 64) % 64), 128 + (n % 64)>>

RECURSIVE utf8_encode(_)
utf8_encode(s) ==
  IF Len(s) = 0 THEN <<>>
  ELSE EncodeChar(s[1]) \o utf8_encode(SubSeq(s, 2, Len(s)))

\* byte number i of b lies in lo..hi
ByteIn(b, i, lo, hi) == Len(b) >= i /\ b[i] >= lo /\ b[i] <= hi

IsContinuation(b, i) == ByteIn(b, i, 128, 191)

\* the length of the UTF-8 sequence that starts b, or 0 when b starts with
\* none: a stray continuation byte, an overlong form (C0, C1, E0 80..9F,
\* F0 80..8F), a surrogate (ED A0..BF), a code point above U+10FFFF
\* (F4 90.., F5..FF) or a truncated sequence
SeqLen(b) ==
  IF Len(b) = 0 THEN 0
  ELSE IF b[1] < 128 THEN 1
  ELSE IF b[1] >= 194 /\ b[1] <= 223
    THEN (IF IsContinuation(b, 2) THEN 2 ELSE 0)
  ELSE IF b[1] >= 224 /\ b[1] <= 239
    THEN (IF /\ ByteIn(b, 2, IF b[1] = 224 THEN 160 ELSE 128,
                             IF b[1] = 237 THEN 159 ELSE 191)
             /\ IsContinuation(b, 3)
          THEN 3 ELSE 0)
  ELSE IF b[1] >= 240 /\ b[1] <= 244
    THEN (IF /\ ByteIn(b, 2, IF b[1] = 240 THEN 144 ELSE 128,
                             IF b[1] = 244 THEN 143 ELSE 191)
             /\ IsContinuation(b, 3)
             /\ IsContinuation(b, 4)
          THEN 4 ELSE 0)
  ELSE 0

\* strict decoding succeeds (no UnicodeDecodeError)
RECURSIVE utf8_valid(_)
utf8_valid(b) ==
  \/ Len(b) = 0
  \/ SeqLen(b) > 0 /\ utf8_valid(SubSeq(b, SeqLen(b) + 1, Len(b)))

\* the code point of the sequence of n bytes that starts b
DecodeChar(b, n) ==
  IF n = 1 THEN b[1]
  ELSE IF n = 2 THEN (b[1] - 192) * 64 + (b[2] - 128)
  ELSE IF n = 3
    THEN (b[1] - 224) * 4096 + (b[2] - 128) * 64 + (b[3] - 128)
  ELSE (b[1] - 240) * 262144 + (b[2] - 128) * 4096
         + (b[3] - 128) * 64 + (b[4] - 128)

\* the decoded text of valid bytes
RECURSIVE utf8_decode(_)
utf8_decode(b) ==
  IF Len(b) = 0 THEN <<>>
  ELSE LET n == SeqLen(b)
       IN  <<DecodeChar(b, n)>> \o utf8_decode(SubSeq(b, n + 1, Len(b)))

-----------------------------------------------------------------------------
(* Strings. *)

\* s has an occurrence of sub starting at position i
OccursAt(s, sub, i) ==
  i >= 1 /\ i + Len(sub) - 1 <= Len(s) /\ SubSeq(s, i, i + Len(sub) - 1) = sub

\* str.find: the first position >= start where sub occurs in s, or 0
str_find(s, sub, start) ==
  LET hits == {i \in start..(Len(s) - Len(sub) + 1) : OccursAt(s, sub, i)}
  IN  IF hits = {} THEN 0
      ELSE CHOOSE i \in hits : \A j \in hits : i <= j

\* str.replace(old, new) for a non-empty old: a single scan from the left,
\* every non-overlapping occurrence replaced, the result never rescanned
RECURSIVE replace_from(_, _, _, _)
replace_from(s, old, new, i) ==
  LET j == str_find(s, old, i)
  IN  IF j = 0 THEN SubSeq(s, i, Len(s))
      ELSE SubSeq(s, i, j - 1) \o new \o replace_from(s, old, new, j + Len(old))

\* a replace that stops after the first occurrence (count=1)
str_replace_first(s, old, new) ==
  LET j == str_find(s, old, 1)
  IN  IF j = 0 THEN s
      ELSE SubSeq(s, 1, j - 1) \o new \o SubSeq(s, j + Len(old), Len(s))

str_replace(s, old, new) == replace_from(s, old, new, 1)

\* the newline translation of a text-mode read (newline=None): "\r\n" and
\* a lone "\r" both become "\n"
universal_newlines(s) == str_replace(str_replace(s, CRLF, LF), CR, LF)

\* os.linesep of the platform of the hardcoded path (POSIX)
linesep == LF

\* the newline translation of a text-mode write (newline=None): "\n"
\* becomes os.linesep
write_newlines(s) == IF linesep = LF THEN s ELSE str_replace(s, LF, linesep)

-----------------------------------------------------------------------------
(* The four rules, lines 7 to 12. *)

\* the non-breaking-space statement moved below the typo statements
NbspLastOrder == <<2, 3, 4, 1>>

\* the order the script applies the rules in: line 7, 10, 11, 12
RefOrder == <<1, 2, 3, 4>>

\* line 7 replacing the first non-breaking space only
replace_nbsp_first(s) == str_replace_first(s, NBSP, SPACE)

replace_nbsp(s) == str_replace(s, NBSP, SPACE)
replace_obervations(s) == str_replace(s, OBERVATIONS, OBSERVATIONS)
replace_bellow(s) == str_replace(s, THE_CODE_BELLOW, THE_CODE_BELOW)
\* line 12 with its two arguments swapped
replace_strenght_swapped(s) == str_replace(s, STRENGTH_HTML, STRENGHT_HTML)

replace_strenght(s) == str_replace(s, STRENGHT_HTML, STRENGTH_HTML)


\* line 14 placed above the last replace statement
SubstitutionsDoneEarly == applied >= Len(order) - 1

\* the script reaches line 14 once every replace statement has run
SubstitutionsDone == applied = Len(order)

-----------------------------------------------------------------------------
(* Control flow of the two `with` blocks and of an exception. *)

\* a handle opened without `with` and never closed
with_leak(h) == h

\* leaving a `with open(...)` block, normally or by an exception, closes
\* the handle
with_exit(h) == FALSE

\* an exception caught and ignored: the script goes on at next
swallowed(next) == next

\* nothing catches an exception: the script stops instead of going on at next
uncaught(next) == "failed"

\* the file opened for update, its bytes kept until they are overwritten
kept_on_open(old) == old

\* open(..., "w") truncates the file: none of its bytes is left
truncated_on_open(old) == <<>>

\* TextIOWrapper keeps encoded text of fewer bytes than its chunk size
\* (8192) pending until the handle is flushed or closed, and hands longer
\* text to the buffered writer before f.write returns
ChunkSize == 8192

\* the buffer sizes the buffered writer can have for a write of n bytes:
\* st_blksize of the file when it is above 1, else io.DEFAULT_BUFFER_SIZE
\* (8192).  Every size of n or more keeps the n bytes in the buffer, so n
\* stands for all of them.
BlockSizes(n) == 2..n

\* f.write of n bytes returns with k of them in the file: none when the
\* bytes stay pending or fit the buffer, otherwise all but an unwritten
\* rest that fits the buffer
returned_by_write(n) ==
  IF n < ChunkSize THEN {0}
  ELSE {k \in 0..n :
          \E B \in BlockSizes(n) :
            \/ n <= B /\ k = 0
            \/ n > B /\ n - k <= B}

\* f.write of n bytes raises OSError with k of them in the file: the file
\* system refused the rest while it was longer than the buffer
raised_by_write(n) ==
  IF n < ChunkSize THEN {}
  ELSE {k \in 0..n : \E B \in BlockSizes(n) : n > B /\ n - k > B}

\* the bytes in the file when the write of `bytes` after `file` fails with
\* k of them written: there is no temporary file to fall back to
partial_write(file, bytes, k) == file \o SubSeq(bytes, 1, k)

\* the confirmation printed twice
print_twice(buf, line) ==
  buf \o utf8_encode(Text(line) \o LF) \o utf8_encode(Text(line) \o LF)

\* print(line) hands the line and a newline to sys.stdout, which encodes
\* them as UTF-8
print_line(buf, line) == buf \o utf8_encode(Text(line) \o LF)

-----------------------------------------------------------------------------
(* The documents the model starts from. *)

Fragments ==
  {NBSP, SPACE, Text("x"), Text("The code"), Text("bellow"), OBERVATIONS,
   STRENGHT_HTML, CRLF}

RECURSIVE Docs(_)
Docs(n) ==
  IF n = 0 THEN {<<>>}
  ELSE LET shorter == Docs(n - 1)
       IN  shorter \cup {d \o f : d \in shorter, f \in Fragments}

ExampleIn ==
  Text("a") \o NBSP
    \o Text("b obervations The code bellow see strenght.html")
ExampleOut == Text("a b observations The code below see strength.html")

\* further documents: the example, overlapping literals, lone "\r", and
\* characters of one to four bytes outside the literals ("!", "~", NUL,
\* U+00E9, U+20AC, U+1F600, a byte order mark)
ExtraDocs ==
  { ExampleIn,
    Text("no matches here"),
    Text("obervation") \o STRENGHT_HTML,
    Text("The") \o NBSP \o Text("code") \o NBSP \o Text("bellow"),
    Text("one\rtwo\n"),
    <<33>>, <<126>>, <<0>>, <<9>>,
    <<233>> \o OBERVATIONS,
    <<8364>> \o NBSP \o <<128512>>,
    <<65279>> \o THE_CODE_BELLOW }

Inputs == Docs(MaxFrags) \cup ExtraDocs

\* files that are not valid UTF-8: a truncated sequence, a stray
\* continuation byte, a byte that never occurs in UTF-8, an overlong form,
\* a surrogate, a code point above U+10FFFF
InvalidFiles ==
  { <<194>>, <<97, 160>>, <<97, 255, 98>>, <<226, 130>>, <<192, 128>>,
    <<224, 128, 128>>, <<237, 160, 128>>, <<244, 144, 128, 128>> }

Files == {utf8_encode(d) : d \in Inputs} \cup InvalidFiles

\* sys.stdout of a file or pipe, of a terminal, under python -u; the
\* mode of a closed standard output only tells whether python runs with -u
Modes == {"block", "line", "unbuffered"}

\* a limited standard output takes nothing, a part of the confirmation, or
\* the confirmation without its newline
Rooms == {0, 10, 26}

\* the files run with every kind of standard output and standard error
StdoutFiles ==
  {utf8_encode(d) : d \in ExtraDocs \cup Docs(1)} \cup InvalidFiles

\* every order of the rules of S
RECURSIVE Orders(_)
Orders(S) ==
  IF S = {} THEN {<<>>}
  ELSE UNION {{Append(p, x) : p \in Orders(S \ {x})} : x \in S}

-----------------------------------------------------------------------------
(* Initial states: the file before the first run. *)

InitRun ==
  /\ pc = "start"
  /\ run = 1
  /\ content = <<>>
  /\ applied = 0
  /\ rhandle = FALSE
  /\ whandle = FALSE
  /\ wbuf = <<>>
  /\ obuf = <<>>
  /\ stdout = <<>>
  /\ traceback = "none"
  /\ status = -1
  /\ disk0 = disk
  /\ exists0 = exists
  /\ readText = <<>>
  /\ reads = 0
  /\ writes = 0
  /\ wopened = FALSE
  /\ err = "none"
  /\ prevOut = <<>>

\* the path names no file, or a file of `files` that can be read, written
\* or both
FileIn(files) ==
  \/ /\ exists = FALSE
     /\ readable = FALSE
     /\ writable \in BOOLEAN
     /\ disk = <<>>
  \/ /\ exists = TRUE
     /\ \E perm \in {<<TRUE, TRUE>>, <<TRUE, FALSE>>, <<FALSE, TRUE>>} :
          readable = perm[1] /\ writable = perm[2]
     /\ disk \in files

\* what standard output and standard error are has no bearing on the steps
\* before line 16, so every file is run with the streams of a terminal, and
\* every kind of stream with the files of StdoutFiles
Init ==
  /\ order = RefOrder
  /\ \/ /\ stdout_state = "writable"
        /\ stdout_room = 0
        /\ stdout_mode = "line"
        /\ stderr_state = "writable"
        /\ FileIn(Files)
     \/ /\ \/ /\ stdout_state = "writable"
              /\ stdout_room = 0
              /\ stdout_mode \in Modes
           \/ /\ stdout_state = "limited"
              /\ stdout_room \in Rooms
              /\ stdout_mode \in Modes
           \/ /\ stdout_state = "closed"
              /\ stdout_room = 0
              /\ stdout_mode \in {"block", "unbuffered"}
        /\ stderr_state \in {"writable", "unwritable", "closed"}
        /\ FileIn(StdoutFiles)
  /\ InitRun

\* the rules in any order, on a readable and writable UTF-8 file
InitOrder ==
  /\ order \in Orders(1..Len(RefOrder))
  /\ exists = TRUE
  /\ readable = TRUE
  /\ writable = TRUE
  /\ stdout_state = "writable"
  /\ stdout_room = 0
  /\ stdout_mode = "line"
  /\ stderr_state = "writable"
  /\ disk \in {utf8_encode(d) : d \in Inputs}
  /\ InitRun

-----------------------------------------------------------------------------
(* The steps of the script. *)

env ==
  <<exists, readable, writable, stdout_state, stdout_room, stdout_mode,
    stderr_state>>
out == <<obuf, stdout, traceback, status>>
hist == <<disk0, exists0, prevOut>>

\* line 3: open(path, "r", encoding="utf-8")
OpenRead ==
  /\ pc = "start"
  /\ exists /\ readable
  /\ pc' = "ropen"
  /\ rhandle' = TRUE
  /\ UNCHANGED <<run, order, env, disk, content, applied, whandle, out, hist, wbuf, readText, reads, writes, wopened, err>>

\* line 3 raises FileNotFoundError or PermissionError
OpenReadFail ==
  /\ pc = "start"
  /\ ~(exists /\ readable)
  /\ pc' = uncaught("ropen")
  /\ err' = "open"
  /\ UNCHANGED <<run, order, env, disk, content, applied, rhandle, whandle,
                 out, hist, wbuf, readText, reads, writes, wopened>>

\* line 4: content = f.read()
Read ==
  /\ pc = "ropen"
  /\ utf8_valid(disk)
  /\ content' = universal_newlines(utf8_decode(disk))
  /\ readText' = content'
  /\ reads' = reads + 1
  /\ pc' = "read"
  /\ UNCHANGED <<run, order, env, disk, applied, rhandle, whandle, out, hist, wbuf, writes, wopened, err>>

\* line 4 raises UnicodeDecodeError; the `with` block closes the handle
ReadFail ==
  /\ pc = "ropen"
  /\ ~utf8_valid(disk)
  /\ rhandle' = with_exit(rhandle)
  /\ pc' = uncaught("read")
  /\ err' = "decode"
  /\ UNCHANGED <<run, order, env, disk, content, applied, whandle, out, hist, wbuf, readText, reads, writes, wopened>>

\* end of the block of lines 3-4
CloseRead ==
  /\ pc = "read"
  /\ rhandle' = with_exit(rhandle)
  /\ pc' = "sub"
  /\ UNCHANGED <<run, order, env, disk, content, applied, whandle, out, hist, wbuf, readText, reads, writes, wopened, err>>

\* the statement of `rule` is the next one to run
NextRule(rule) ==
  /\ pc = "sub"
  /\ applied < Len(order)
  /\ order[applied + 1] = rule

\* line 7
ReplaceNbsp ==
  /\ NextRule(1)
  /\ content' = replace_nbsp(content)
  /\ applied' = applied + 1
  /\ UNCHANGED <<pc, run, order, env, disk, rhandle, whandle, out, hist, wbuf,
                 readText, reads, writes, wopened, err>>

\* line 10
ReplaceObervations ==
  /\ NextRule(2)
  /\ content' = replace_obervations(content)
  /\ applied' = applied + 1
  /\ UNCHANGED <<pc, run, order, env, disk, rhandle, whandle, out, hist, wbuf,
                 readText, reads, writes, wopened, err>>

\* line 11
ReplaceBellow ==
  /\ NextRule(3)
  /\ content' = replace_bellow(content)
  /\ applied' = applied + 1
  /\ UNCHANGED <<pc, run, order, env, disk, rhandle, whandle, out, hist, wbuf,
                 readText, reads, writes, wopened, err>>

\* line 12
ReplaceStrenght ==
  /\ NextRule(4)
  /\ content' = replace_strenght(content)
  /\ applied' = applied + 1
  /\ UNCHANGED <<pc, run, order, env, disk, rhandle, whandle, out, hist, wbuf,
                 readText, reads, writes, wopened, err>>

\* line 14: open(path, "w", encoding="utf-8") creates the file when the
\* path names none and truncates it otherwise
OpenWrite ==
  /\ pc = "sub"
  /\ SubstitutionsDone
  /\ writable
  /\ exists' = TRUE
  /\ disk' = truncated_on_open(disk)
  /\ whandle' = TRUE
  /\ wopened' = TRUE
  /\ pc' = "wopen"
  /\ UNCHANGED <<run, order, readable, writable, stdout_state,
                 stdout_room, stdout_mode, stderr_state, content, applied,
                 rhandle,
                 out, hist, wbuf, readText, reads, writes, err>>

\* line 14 raises PermissionError
OpenWriteFail ==
  /\ pc = "sub"
  /\ SubstitutionsDone
  /\ ~writable
  /\ pc' = uncaught("wopen")
  /\ err' = "openw"
  /\ UNCHANGED <<run, order, env, disk, content, applied, rhandle, whandle,
                 out, hist, wbuf, readText, reads, writes, wopened>>

\* line 15: f.write(content) encodes the text; the bytes stay in the buffers
\* of the handle, or reach the file in part or in whole when they are
\* ChunkSize bytes or more
Write ==
  /\ pc = "wopen"
  /\ LET bytes == utf8_encode(write_newlines(content))
     IN  \E k \in returned_by_write(Len(bytes)) :
           /\ disk' = disk \o SubSeq(bytes, 1, k)
           /\ wbuf' = wbuf \o SubSeq(bytes, k + 1, Len(bytes))
  /\ writes' = writes + 1
  /\ pc' = "written"
  /\ UNCHANGED <<run, order, env, content, applied, rhandle, whandle, out,
                 hist, readText, reads, wopened, err>>

\* end of the block of lines 14-15: close() flushes the buffer to the file
\* and closes the handle
CloseWrite ==
  /\ pc = "written"
  /\ disk' = disk \o wbuf
  /\ wbuf' = <<>>
  /\ whandle' = with_exit(whandle)
  /\ pc' = "wclosed"
  /\ UNCHANGED <<run, order, env, content, applied, rhandle, out, hist,
                 readText, reads, writes, wopened, err>>

\* the file system refuses bytes of the text and OSError is raised: by
\* f.write at line 15 (text of ChunkSize bytes or more), or by the flush of
\* close() when the block of lines 14-15 is left.  close() flushes a second
\* time before it raises, so after a failure that does not last any number
\* of the buffered bytes, all of them included, reach the file.  The bytes
\* already in the file stay, the handle is closed and the exception ends
\* the script.
WriteFail ==
  /\ pc \in {"wopen", "written"}
  /\ LET bytes == IF pc = "wopen"
                    THEN utf8_encode(write_newlines(content))
                    ELSE wbuf
         failed == IF pc = "wopen"
                     THEN raised_by_write(Len(bytes))
                     ELSE IF bytes = <<>> THEN {} ELSE 0..Len(bytes)
     IN  \E k \in failed : disk' = partial_write(disk, bytes, k)
  /\ wbuf' = <<>>
  /\ whandle' = with_exit(whandle)
  /\ pc' = uncaught("wclosed")
  /\ err' = "write"
  /\ UNCHANGED <<run, order, env, content, applied, rhandle, out, hist,
                 readText, reads, writes, wopened>>

\* standard output takes all of `bytes`; nothing is written for none
stdout_fits(bytes) ==
  \/ bytes = <<>>
  \/ stdout_state = "writable"
  \/ stdout_state = "limited" /\ Len(stdout) + Len(bytes) <= stdout_room

\* the bytes of `bytes` standard output takes before it refuses the rest
stdout_takes(bytes) ==
  IF stdout_fits(bytes) THEN bytes
  ELSE IF stdout_state = "limited" /\ Len(stdout) < stdout_room
    THEN SubSeq(bytes, 1, stdout_room - Len(stdout))
    ELSE <<>>

\* line 16: print returns.  print does nothing when standard output is
\* closed (sys.stdout is None); a block-buffered sys.stdout keeps the line
\* in its buffer; otherwise the line is written before print returns.
Confirm ==
  /\ pc = "wclosed"
  /\ LET pending == print_line(obuf, CONFIRMATION)
     IN  IF stdout_state = "closed"
           THEN UNCHANGED <<obuf, stdout>>
           ELSE IF stdout_mode = "block"
             THEN obuf' = pending /\ UNCHANGED stdout
             ELSE /\ stdout_fits(pending)
                  /\ stdout' = stdout \o pending
                  /\ obuf' = <<>>
  /\ pc' = "done"
  /\ UNCHANGED <<run, order, env, disk, content, applied, rhandle, whandle,
                 traceback, status, hist, wbuf, readText, reads, writes,
                 wopened, err>>

\* line 16 raises OSError: sys.stdout writes the line before print returns
\* and standard output refuses bytes of it.  The bytes it took have
\* arrived; a line-buffered sys.stdout keeps the rest in its buffer, an
\* unbuffered one drops it.
ConfirmFail ==
  /\ pc = "wclosed"
  /\ stdout_state # "closed"
  /\ stdout_mode # "block"
  /\ LET pending == print_line(obuf, CONFIRMATION)
         taken == stdout_takes(pending)
     IN  /\ ~stdout_fits(pending)
         /\ stdout' = stdout \o taken
         /\ obuf' = IF stdout_mode = "line"
                      THEN SubSeq(pending, Len(taken) + 1, Len(pending))
                      ELSE <<>>
  /\ pc' = uncaught("done")
  /\ err' = "print"
  /\ UNCHANGED <<run, order, env, disk, content, applied, rhandle, whandle,
                 traceback, status, hist, wbuf, readText, reads, writes,
                 wopened>>

\* the interpreter exits after the last statement or the uncaught
\* exception: it writes the traceback of the exception to standard error
\* and flushes the buffers of standard output and standard error; bytes
\* that a stream refuses are lost.  sys.stderr is buffered unless python
\* runs with -u, so a traceback that cannot be written fails its flush.
\* Status 120 after a failed flush, otherwise 1 after an exception and 0
\* after the last statement.
Exit ==
  /\ pc \in {"done", "failed"}
  /\ stdout' = stdout \o stdout_takes(obuf)
  /\ obuf' = <<>>
  /\ traceback' = IF err = "none" THEN "none"
                  ELSE IF stderr_state = "writable" THEN "printed"
                  ELSE "lost"
  /\ status' = IF ~stdout_fits(obuf) THEN 120
               ELSE IF err = "none" THEN 0
               ELSE IF stderr_state = "unwritable"
                       /\ stdout_mode # "unbuffered" THEN 120
               ELSE 1
  /\ pc' = "exited"
  /\ UNCHANGED <<run, order, env, disk, content, applied, rhandle, whandle,
                 hist, wbuf, readText, reads, writes, wopened, err>>

\* the script is run again on the file a run has rewritten
Rerun ==
  /\ pc = "exited"
  /\ wopened /\ err \in {"none", "print"}
  /\ run < MaxRuns
  /\ run' = run + 1
  /\ pc' = "start"
  /\ content' = <<>>
  /\ applied' = 0
  /\ stdout' = <<>>
  /\ traceback' = "none"
  /\ status' = -1
  /\ disk0' = disk
  /\ exists0' = exists
  /\ prevOut' = disk
  /\ readText' = <<>>
  /\ reads' = 0
  /\ writes' = 0
  /\ wopened' = FALSE
  /\ err' = "none"
  /\ UNCHANGED <<order, env, disk, rhandle, whandle, wbuf, obuf>>

Next ==
  \/ OpenRead
  \/ OpenReadFail
  \/ Read
  \/ ReadFail
  \/ CloseRead
  \/ ReplaceNbsp
  \/ ReplaceObervations
  \/ ReplaceBellow
  \/ ReplaceStrenght
  \/ OpenWrite
  \/ OpenWriteFail
  \/ Write
  \/ CloseWrite
  \/ WriteFail
  \/ Confirm
  \/ ConfirmFail
  \/ Exit
  \/ Rerun

Spec == Init /\ [][Next]_vars

\* one run without failures, for the comparison of rule orders
NextOrder ==
  \/ OpenRead
  \/ Read
  \/ CloseRead
  \/ ReplaceNbsp
  \/ ReplaceObervations
  \/ ReplaceBellow
  \/ ReplaceStrenght
  \/ OpenWrite
  \/ Write
  \/ CloseWrite
  \/ Confirm
  \/ Exit

SpecOrder == InitOrder /\ [][NextOrder]_vars

-----------------------------------------------------------------------------
(* The properties.  The reference definitions below are written from the   *)
(* statement of the rules, independently of str_replace and RefOrder.      *)

Contains(s, sub) == \E i \in 1..Len(s) : OccursAt(s, sub, i)

\* no non-breaking space and none of the three typos
Clean(s) ==
  /\ ~Contains(s, NBSP)
  /\ ~Contains(s, OBERVATIONS)
  /\ ~Contains(s, THE_CODE_BELLOW)
  /\ ~Contains(s, STRENGHT_HTML)

\* every non-overlapping occurrence of old replaced, scanning from the left
RECURSIVE RefReplace(_, _, _)
RefReplace(s, old, new) ==
  IF Len(s) < Len(old) THEN s
  ELSE IF SubSeq(s, 1, Len(old)) = old
    THEN new \o RefReplace(SubSeq(s, Len(old) + 1, Len(s)), old, new)
    ELSE SubSeq(s, 1, 1) \o RefReplace(SubSeq(s, 2, Len(s)), old, new)

\* the four rules in the order of the specification
RefFix(s) ==
  RefReplace(
    RefReplace(
      RefReplace(
        RefReplace(s, NBSP, SPACE),
        OBERVATIONS, OBSERVATIONS),
      THE_CODE_BELLOW, THE_CODE_BELOW),
    STRENGHT_HTML, STRENGTH_HTML)

\* rule a runs before rule b in the order o
Before(o, a, b) == \E i, j \in 1..Len(o) : i < j /\ o[i] = a /\ o[j] = b

\* the run has written the text back: the write handle was opened and is
\* closed, and neither f.write nor close() raised
Written == wopened /\ ~whandle /\ err \in {"none", "print"}

\* C1: whatever the input document, the text written back holds no U+00A0
\* and no occurrence of "obervations", "The code bellow" or "strenght.html",
\* also when a replacement joins text into a search literal.
C1_OutputHasNoSearchLiteral == Written => Clean(utf8_decode(disk))

C1_Witness ==
  /\ pc = "done"
  /\ run = 1
  /\ Contains(utf8_decode(disk0), Text("The code") \o NBSP \o Text("bellow"))
  /\ Contains(utf8_decode(disk), THE_CODE_BELOW)
  /\ Clean(utf8_decode(disk))

\* C2 as stated: applying the four rules in any of the 24 orders gives the
\* text the reference order gives.
C2_AnyOrderSameResult ==
  pc = "done" => utf8_decode(disk) = RefFix(readText)

\* C2 as amended: applying the four rules in any of the 12 orders in which
\* the U+00A0 rule runs before the "The code bellow" rule gives the text the
\* reference order gives.
C2_NbspBeforeBellowSameResult ==
  (pc = "done" /\ Before(order, 1, 3)) =>
    utf8_decode(disk) = RefFix(readText)

C2_Witness ==
  /\ pc = "done"
  /\ order = <<4, 1, 3, 2>>
  /\ readText = ExampleIn
  /\ utf8_decode(disk) = ExampleOut

\* C3: a second run on the file a first run produced writes back the bytes
\* the first run wrote.
C3_SecondRunWritesSameText ==
  (run >= 2 /\ Written) => disk = prevOut

C3_Witness ==
  /\ run = 2
  /\ pc = "done"
  /\ disk = prevOut
  /\ Contains(readText, THE_CODE_BELOW)
  /\ Contains(readText, OBSERVATIONS)

\* C4: when the input document holds no U+00A0 and none of the three typos,
\* the file after the run equals the file before it.
C4_NoLiteralMeansFileUnchanged ==
  (pc = "done" /\ Clean(utf8_decode(disk0))) => disk = disk0

\* C5: the written text is the composition of the four rules in the fixed
\* order, each applied to the result of the one before and replacing every
\* occurrence; the example input gives the example output.
C5_WrittenIsSequentialComposition ==
  Written =>
    /\ utf8_decode(disk) = RefFix(readText)
    /\ readText = ExampleIn => utf8_decode(disk) = ExampleOut

C5_Witness ==
  /\ pc = "done"
  /\ readText = OBERVATIONS \o NBSP \o OBERVATIONS
  /\ utf8_decode(disk) = OBSERVATIONS \o SPACE \o OBSERVATIONS

\* C6: when the file cannot be opened for reading or is not valid UTF-8, the
\* run fails without opening the file for writing: the bytes on disk are
\* those of the start and nothing is printed.
C6_ReadFailureLeavesFileAlone ==
  err \in {"open", "decode"} =>
    /\ pc \in {"failed", "exited"}
    /\ ~wopened
    /\ ~whandle
    /\ exists = exists0
    /\ disk = disk0
    /\ stdout = <<>>
    /\ obuf = <<>>

C6_Witness ==
  /\ pc = "failed"
  /\ err = "decode"
  /\ ~utf8_valid(disk)
  /\ disk = disk0

\* the run has ended after the file was rewritten and its handle closed
CompletedWrite == pc = "exited" /\ Written

\* the bytes of the confirmation line
Line == utf8_encode(Text("File updated successfully.") \o LF)

\* p is a prefix of s
IsPrefix(p, s) == Len(p) <= Len(s) /\ p = SubSeq(s, 1, Len(p))

C8_HandlesReleased ==
  pc \in {"done", "failed", "exited"} => ~rhandle /\ ~whandle

C8_Witness ==
  /\ pc = "failed"
  /\ err = "write"
  /\ wopened
  /\ ~rhandle
  /\ ~whandle

C10_ReadSubstituteWrite ==
  /\ reads <= 1
  /\ writes <= 1
  /\ ~(rhandle /\ whandle)
  /\ wopened => (reads = 1 /\ ~rhandle /\ applied = Len(RefOrder))
  /\ pc = "wopen" => content = RefFix(readText)
  /\ pc = "done" => (reads = 1 /\ writes = 1)

C10_Witness ==
  /\ pc = "wopen"
  /\ whandle
  /\ ~rhandle
  /\ reads = 1
  /\ writes = 0
  /\ applied = Len(RefOrder)
  /\ content # readText

====
